---- MODULE Spec2Model ----
(***************************************************************************)
(* Model of the C2 listener (src/listener.py): the session registry and    *)
(* its acceptor and lifecycle-monitor threads, the operator console, the   *)
(* module scripts, the command channel (send_command / recv_output), the   *)
(* output normalizer and the file transfer.                                *)
(*                                                                         *)
(* Spec      the listener as a whole: acceptor thread, one monitor thread  *)
(*           per session, the remote peers, and the operator's thread      *)
(*           (command_loop, list_sessions, interact, the modules), with    *)
(*           MaxConns connections.  The channel calls are one step each.   *)
(* FairSpec  Spec with weak fairness for every thread.                     *)
(* RegSpec   the threads that touch the registry (acceptor, monitors, the  *)
(*           console's list_sessions and interact lookup), with RegConns   *)
(*           connections and no channel traffic.                           *)
(* RecvSpec  one call of recv_output, byte by byte, against a peer.        *)
(* AlignSpec two exchanges in a row on one connection, byte by byte.       *)
(* SendSpec  one call of send_command on a handle in any state.            *)
(* CleanSpec clean_output applied to a text and again to its result.       *)
(* ProbeSpec module_sysinfo's classification of its privilege probe.       *)
(* SysinfoSpec  module_sysinfo's seven exchanges and what it makes of them.*)
(* AutopwnSpec  module_autopwn's two checks against the remote's replies.  *)
(* DlSpec    one call of module_download_file against a remote file and a  *)
(*           remote side that may answer anything.                         *)
(* SaveSpec  two calls of module_download_file in a row, answered in full, *)
(*           and the local files they write.                               *)
(*                                                                         *)
(* The console's "exit" (sys.exit) ends the process and is not modelled.   *)
(***************************************************************************)
EXTENDS Integers, Sequences, FiniteSets, TLC

\* ------------------------------------------------------------------ bounds
\* Connections the remote side ever opens, in Spec and in RegSpec.
MaxConns == 1
RegConns == 3
\* Failures of server.accept() the environment injects.
MaxAcceptErrs == 1

Conns == 1..RegConns

VARIABLES
    \* C2Listener fields
    session_counter,    \* self.session_counter
    sessions,           \* self.sessions: an insertion-ordered dict, as a sequence of [key, val]
    \* the listening socket and the connections
    backlog,            \* connections established and not yet accepted, in order
    sock,               \* per connection: the state of its handle on the listener's side
    \* accept_connections (one thread)
    accPc, accClient, accSid, accErrs,
    \* handle_client (one thread per started monitor): sid -> position
    mon,
    \* the operator's thread: command_loop / list_sessions / interact / modules
    opPc, opSid, opClient, opStack, lastOut, listLen, listIdx, listed,
    runModule,          \* execute_module's argument `module`, "none" outside a "run"
    \* history (not program state)
    issued,             \* the identifiers in the order they were issued
    insertLog,          \* the keys in the order they were inserted into the registry
    acceptLog,          \* the outcomes of the calls of server.accept(), in order
    removed,            \* the keys ever deleted from the registry
    failed,             \* connections on which a transport failure has occurred
    chanLast,           \* per connection: the last channel call that completed
    resent,             \* connections on which send_command followed send_command
    rewrote,            \* connections on which send_command followed a successful send_command
    \* one call of recv_output (RecvSpec)
    rPc, rPeer, rPending, rBuf, rOut, rRet, rEnd, rIdle, rElapsed, rSent, rLastChunk, rWrites,
    rCmd,               \* the commands sent so far on the connection (AlignSpec)
    rLeft,              \* what the remote had written and no read had returned when
                        \* the last command was sent
    \* one call of send_command (SendSpec)
    sPc, sHandle, sCmd, sWire, sRet, sRaised, sErr,
    \* one call of a text function or of a module over given replies (CleanSpec,
    \* ProbeSpec, SysinfoSpec, AutopwnSpec); tCalls: the module's channel calls in
    \* order, tInfo: module_sysinfo's dict `info`
    tPc, tText, tOut, tOut2, tStatus, tCalls, tInfo,
    \* module_download_file against a remote file (DlSpec, SaveSpec)
    dPc, dPath, dFile, dCheck, dSizeOut, dSize, dReply, dB64, dResult, dRuns, dSends,
    dFiles, dWrites,
    dNow, dBack

regVars == <<session_counter, sessions, backlog, accPc, accClient, accSid, accErrs,
             issued, insertLog, acceptLog>>
opVars == <<opPc, opSid, opClient, opStack, lastOut, listLen, listIdx, listed, runModule>>
chanVars == <<failed, chanLast, resent, rewrote>>
recvVars == <<rPc, rPeer, rPending, rBuf, rOut, rRet, rEnd, rIdle, rElapsed, rSent,
              rLastChunk, rWrites, rCmd, rLeft>>
sendVars == <<sPc, sHandle, sCmd, sWire, sRet, sRaised, sErr>>
textVars == <<tPc, tText, tOut, tOut2, tStatus, tCalls, tInfo>>
dlVars == <<dPc, dPath, dFile, dCheck, dSizeOut, dSize, dReply, dB64, dResult, dRuns, dSends,
    dFiles, dWrites,
            dNow, dBack>>
vars == <<session_counter, sessions, backlog, sock, accPc, accClient, accSid, accErrs,
          mon, opPc, opSid, opClient, opStack, lastOut, listLen, listIdx, listed,
          runModule, issued, insertLog, acceptLog, removed, failed, chanLast, resent, rewrote,
          rPc, rPeer, rPending, rBuf, rOut, rRet, rEnd, rIdle, rElapsed, rSent,
          rLastChunk, rWrites, rCmd, rLeft,
          sPc, sHandle, sCmd, sWire, sRet, sRaised, sErr,
          tPc, tText, tOut, tOut2, tStatus, tCalls, tInfo,
          dPc, dPath, dFile, dCheck, dSizeOut, dSize, dReply, dB64, dResult, dRuns, dSends,
    dFiles, dWrites,
          dNow, dBack>>

\* ------------------------------------------------- Python dict (ordered)
DictKeys(d) == {d[i].key : i \in 1..Len(d)}

DictHas(d, k) == k \in DictKeys(d)

DictGet(d, k) == d[CHOOSE i \in 1..Len(d) : d[i].key = k].val

\* A faulty dict: a new key goes in front of the entries.
DictSetFront(d, k, v) ==
    IF DictHas(d, k)
    THEN [i \in 1..Len(d) |-> IF d[i].key = k THEN [key |-> k, val |-> v] ELSE d[i]]
    ELSE <<[key |-> k, val |-> v]>> \o d

\* d[k] = v: replaces the value in place, or appends a new entry.
DictSet(d, k, v) ==
    IF DictHas(d, k)
    THEN [i \in 1..Len(d) |-> IF d[i].key = k THEN [key |-> k, val |-> v] ELSE d[i]]
    ELSE Append(d, [key |-> k, val |-> v])

\* del d[k]
DictDel(d, k) == SelectSeq(d, LAMBDA e : e.key # k)

\* --------------------------------------------------------------- __init__
InitListener ==
    /\ session_counter = 0
    /\ sessions = <<>>
    /\ backlog = <<>>
    /\ sock = [c \in Conns |-> "unconnected"]
    /\ accPc = "accept" /\ accClient = 0 /\ accSid = 0 /\ accErrs = 0
    /\ mon = <<>>
    /\ opPc = "console" /\ opSid = 0 /\ opClient = 0 /\ opStack = <<>>
    /\ lastOut = "none" /\ listLen = 0 /\ listIdx = 0 /\ listed = <<>>
    /\ runModule = "none"
    /\ issued = <<>> /\ insertLog = <<>> /\ acceptLog = <<>> /\ removed = {}
    /\ failed = {} /\ chanLast = [c \in Conns |-> "none"]
    /\ resent = {} /\ rewrote = {}

RecvIdle ==
    /\ rPc = "off" /\ rPeer = "open" /\ rPending = <<>> /\ rBuf = <<>> /\ rOut = <<>>
    /\ rRet = <<>> /\ rEnd = "none" /\ rIdle = 0 /\ rElapsed = 0 /\ rSent = <<>>
    /\ rLastChunk = <<>> /\ rWrites = 0
    /\ rCmd = 1 /\ rLeft = <<>>

SendIdle ==
    /\ sPc = "off" /\ sHandle = "open" /\ sCmd = <<>> /\ sWire = <<>>
    /\ sRet = "none" /\ sRaised = FALSE /\ sErr = FALSE

TextIdle ==
    /\ tPc = "off" /\ tText = <<>> /\ tOut = <<>> /\ tOut2 = <<>>
    /\ tStatus = "none" /\ tCalls = <<>> /\ tInfo = <<>>

DlIdle ==
    /\ dPc = "off" /\ dPath = <<>> /\ dFile = <<>> /\ dCheck = <<>> /\ dSizeOut = <<>>
    /\ dSize = 0 /\ dReply = <<>>
    /\ dB64 = <<>> /\ dResult = "none" /\ dRuns = 0 /\ dSends = <<>>
    /\ dFiles = <<>> /\ dWrites = <<>> /\ dNow = 0 /\ dBack = 0

Init == InitListener /\ RecvIdle /\ SendIdle /\ TextIdle /\ DlIdle

\* ------------------------------------------------------------ the peers
\* A remote endpoint connects: the connection waits in the listen backlog.
PeerConnect(c) ==
    /\ sock[c] = "unconnected"
    /\ sock' = [sock EXCEPT ![c] = "open"]
    /\ backlog' = Append(backlog, c)
    /\ UNCHANGED <<session_counter, sessions, accPc, accClient, accSid, accErrs,
                   issued, insertLog, acceptLog, mon, removed>>
    /\ UNCHANGED <<opVars, chanVars, recvVars, sendVars, textVars, dlVars>>

\* The remote endpoint goes away: an orderly close (FIN) or a reset (RST).
PeerClose(c, how) ==
    /\ sock[c] = "open"
    /\ how \in {"fin", "rst"}
    /\ sock' = [sock EXCEPT ![c] = how]
    /\ UNCHANGED <<regVars, mon, removed, opVars, chanVars, recvVars, sendVars, textVars, dlVars>>

\* --------------------------------------------------- accept_connections
\* Faulty counters: one that is never incremented, one that wraps around.
NextCounterStuck(n) == n

NextCounterWrap(n) == (n % 2) + 1

\* self.session_counter += 1
NextCounter(n) == n + 1

\* server.accept() returns the head of the backlog.
accept_ok ==
    /\ accPc = "accept"
    /\ backlog # <<>>
    /\ accClient' = Head(backlog)
    /\ backlog' = Tail(backlog)
    /\ accPc' = "incr"
    /\ acceptLog' = Append(acceptLog, "ok")
    /\ UNCHANGED <<session_counter, sessions, accSid, accErrs, issued, insertLog,
                   sock, mon, removed>>
    /\ UNCHANGED <<opVars, chanVars, recvVars, sendVars, textVars, dlVars>>

\* A faulty handler: the exception leaves the loop.
accept_except_exit == "exit"

\* "except: pass" inside "while True": the loop goes on with the next accept.
accept_except == "accept"

\* server.accept() raises.
accept_error ==
    /\ accPc = "accept"
    /\ accErrs < MaxAcceptErrs
    /\ accErrs' = accErrs + 1
    /\ acceptLog' = Append(acceptLog, "err")
    /\ accPc' = accept_except
    /\ UNCHANGED <<session_counter, sessions, backlog, accClient, accSid,
                   issued, insertLog, sock, mon, removed>>
    /\ UNCHANGED <<opVars, chanVars, recvVars, sendVars, textVars, dlVars>>

accept_incr ==
    /\ accPc = "incr"
    /\ session_counter' = NextCounter(session_counter)
    /\ accPc' = "sid"
    /\ UNCHANGED <<sessions, backlog, accClient, accSid, accErrs, issued, insertLog,
                   acceptLog, sock, mon, removed>>
    /\ UNCHANGED <<opVars, chanVars, recvVars, sendVars, textVars, dlVars>>

\* sid = self.session_counter
accept_sid ==
    /\ accPc = "sid"
    /\ accSid' = session_counter
    /\ issued' = Append(issued, session_counter)
    /\ accPc' = "insert"
    /\ UNCHANGED <<session_counter, sessions, backlog, accClient, accErrs, insertLog,
                   acceptLog, sock, mon, removed>>
    /\ UNCHANGED <<opVars, chanVars, recvVars, sendVars, textVars, dlVars>>

\* self.sessions[sid] = {'socket': client, 'addr': addr, 'time': ...}
accept_insert ==
    /\ accPc = "insert"
    /\ sessions' = DictSet(sessions, accSid, [socket |-> accClient, addr |-> accClient])
    /\ insertLog' = Append(insertLog, accSid)
    /\ accPc' = "spawn"
    /\ UNCHANGED <<session_counter, backlog, accClient, accSid, accErrs, issued,
                   acceptLog, sock, mon, removed>>
    /\ UNCHANGED <<opVars, chanVars, recvVars, sendVars, textVars, dlVars>>

\* threading.Thread(target=self.handle_client, args=(client, addr, sid)).start()
accept_spawn ==
    /\ accPc = "spawn"
    /\ mon' = Append(mon, [sid |-> accSid, client |-> accClient, pc |-> "poll"])
    /\ accPc' = "accept"
    /\ UNCHANGED <<session_counter, sessions, backlog, accClient, accSid, accErrs,
                   issued, insertLog, acceptLog, sock, removed>>
    /\ UNCHANGED <<opVars, chanVars, recvVars, sendVars, textVars, dlVars>>

accept_connections ==
    \/ accept_ok
    \/ accept_error
    \/ accept_incr
    \/ accept_sid
    \/ accept_insert
    \/ accept_spawn

\* --------------------------------------------------------- handle_client
\* One step of the monitor thread m (an index into mon).
\*   poll:  time.sleep(1); if session_id not in self.sessions: break
\*   close: finally: client_socket.close()
\*   del:   if session_id in self.sessions: del self.sessions[session_id]
\* A faulty test: the loop is left while the session is registered.
poll_break_present(d, session_id) == DictHas(d, session_id)

\* if session_id not in self.sessions: break
poll_break(d, session_id) == ~DictHas(d, session_id)

handle_client(m) ==
    /\ m \in 1..Len(mon)
    /\ mon[m].pc # "done"
    /\ LET t == mon[m] IN
       CASE t.pc = "poll" ->
              /\ mon' = IF poll_break(sessions, t.sid)
                        THEN [mon EXCEPT ![m].pc = "close"]
                        ELSE mon
              /\ UNCHANGED <<sessions, sock, removed>>
         [] t.pc = "close" ->
              /\ sock' = [sock EXCEPT ![t.client] = "closed"]
              /\ mon' = [mon EXCEPT ![m].pc = "del"]
              /\ UNCHANGED <<sessions, removed>>
         [] t.pc = "del" ->
              /\ sessions' = IF DictHas(sessions, t.sid) THEN DictDel(sessions, t.sid)
                             ELSE sessions
              /\ removed' = IF DictHas(sessions, t.sid) THEN removed \cup {t.sid}
                            ELSE removed
              /\ mon' = [mon EXCEPT ![m].pc = "done"]
              /\ UNCHANGED sock
    /\ UNCHANGED <<session_counter, backlog, accPc, accClient, accSid, accErrs,
                   issued, insertLog, acceptLog>>
    /\ UNCHANGED <<opVars, chanVars, recvVars, sendVars, textVars, dlVars>>

\* ------------------------------------------------- the command channel
\* What a reply is to the code that reads it: nothing at all ("empty"), some
\* text without the marker the caller looks for ("plain"), or text with it
\* ("marked").  RecvSpec models the bytes.
Replies == {"empty", "plain", "marked"}

\* send_command(client, cmd) as one step: the write succeeds on an open handle
\* and on one whose peer has closed (the peer answers that write with a reset);
\* it raises on a reset or closed handle, and send_command returns False.
SendCall(c, ok) ==
    /\ ok = (sock[c] \in {"open", "fin"})
    /\ sock' = IF sock[c] = "fin" THEN [sock EXCEPT ![c] = "rst"] ELSE sock
    /\ chanLast' = [chanLast EXCEPT ![c] = IF ok THEN "send_ok" ELSE "send_fail"]
    /\ resent' = IF chanLast[c] \in {"send_ok", "send_fail"} THEN resent \cup {c} ELSE resent
    /\ rewrote' = IF chanLast[c] = "send_ok" THEN rewrote \cup {c} ELSE rewrote
    /\ failed' = IF ok THEN failed ELSE failed \cup {c}

\* recv_output(client, timeout) as one step, on a handle that is not closed:
\* `out` is what it returns, `broken` whether a read failed or returned zero
\* bytes.  An open handle never breaks; a reset one breaks at once; one whose
\* peer has closed may still hold a whole buffered reply.
RecvCall(c, out, broken) ==
    /\ sock[c] \in {"open", "fin", "rst"}
    /\ out \in Replies
    /\ sock[c] = "open" => ~broken
    /\ sock[c] = "rst" => (broken /\ out = "empty")
    /\ chanLast' = [chanLast EXCEPT ![c] = "recv"]
    /\ failed' = IF broken THEN failed \cup {c} ELSE failed
    /\ UNCHANGED <<resent, rewrote, sock>>

\* recv_output on a closed handle: client.settimeout() is outside the try and
\* raises; the exception unwinds to interact's "except Exception".
RecvRaises(c) == sock[c] = "closed"

\* ------------------------------------------------------------ the modules
\* A module is a script of channel calls.  Instructions:
\*   send      self.send_command(client, ...)   (the result is ignored)
\*   recv      self.recv_output(client, ...)
\*   ret_unless   return unless the last reply holds the marker
\*   recv_if      one more recv_output if the last reply holds the marker
\*   call_if      call module `arg` if the last reply holds the marker
\*   call         call module `arg`
I(op) == [op |-> op, arg |-> ""]

Exchange == <<I("send"), I("recv")>>

module_download_file_script ==
    Exchange \o <<I("ret_unless")>> \o Exchange \o Exchange

module_browser_stealer_script ==
    Exchange \o <<[op |-> "call_if", arg |-> "download"]>>

module_sysinfo_script ==
    Exchange \o Exchange \o Exchange \o Exchange \o Exchange \o Exchange \o Exchange

\* A faulty script: the second command is written before the first reply is read.
module_persist_noread == <<I("send"), I("send"), I("recv")>>

module_persist_script == Exchange \o Exchange

module_privesc_script == Exchange \o Exchange

module_autopwn_script == Exchange \o Exchange \o <<I("recv_if")>>

module_network_script == Exchange

module_screenshot_script == Exchange

module_dump_all_script ==
    << [op |-> "call", arg |-> "sysinfo"], [op |-> "call", arg |-> "stealer"],
       [op |-> "call", arg |-> "persist"], [op |-> "call", arg |-> "privesc"] >>

\* execute_module's dispatch table.
modules ==
    [ sysinfo |-> module_sysinfo_script,
      persist |-> module_persist_script,
      privesc |-> module_privesc_script,
      network |-> module_network_script,
      screenshot |-> module_screenshot_script,
      autopwn |-> module_autopwn_script,
      dump |-> module_dump_all_script,
      stealer |-> module_browser_stealer_script,
      download |-> module_download_file_script ]

ModuleNames == DOMAIN modules

\* What the operator may type after "run ": a module of the table or not.
RunArgs == ModuleNames \cup {"bogus"}

Frame(mod) == [mod |-> mod, pc |-> 1]

Top == opStack[Len(opStack)]

AtEnd == Top.pc > Len(modules[Top.mod])

Instr == modules[Top.mod][Top.pc]

Advance == [opStack EXCEPT ![Len(opStack)].pc = @ + 1]

Marked == lastOut = "marked"

\* --------------------------------------------------------- list_sessions
\* "sessions": if not self.sessions: return; else start iterating .items().
list_sessions ==
    /\ opPc = "console"
    /\ IF sessions = <<>>
       THEN UNCHANGED <<opPc, listLen, listIdx, listed>>
       ELSE /\ opPc' = "list_iter"
            /\ listLen' = Len(sessions)
            /\ listIdx' = 0
            /\ listed' = <<>>
    /\ UNCHANGED <<opSid, opClient, opStack, lastOut, runModule>>
    /\ UNCHANGED <<regVars, sock, mon, removed, chanVars, recvVars, sendVars, textVars, dlVars>>

\* One turn of "for sid, info in self.sessions.items(): print(...)".  The dict
\* iterator raises RuntimeError when the dict's size has changed since the
\* iteration began; command_loop's "except Exception" prints it.
list_sessions_next ==
    /\ opPc = "list_iter"
    /\ IF Len(sessions) # listLen \/ listIdx >= Len(sessions)
       THEN /\ opPc' = "console"
            /\ listLen' = 0 /\ listIdx' = 0 /\ listed' = <<>>
       ELSE /\ listed' = Append(listed, sessions[listIdx + 1].key)
            /\ listIdx' = listIdx + 1
            /\ UNCHANGED <<opPc, listLen>>
    /\ UNCHANGED <<opSid, opClient, opStack, lastOut, runModule>>
    /\ UNCHANGED <<regVars, sock, mon, removed, chanVars, recvVars, sendVars, textVars, dlVars>>

\* --------------------------------------------------------------- interact
\* "interact <id>": not found, or client = self.sessions[id]['socket'] and the
\* session prompt.
interact(id) ==
    /\ opPc = "console"
    /\ IF DictHas(sessions, id)
       THEN /\ opPc' = "interact"
            /\ opSid' = id
            /\ opClient' = DictGet(sessions, id).socket
       ELSE UNCHANGED <<opPc, opSid, opClient>>
    /\ UNCHANGED <<opStack, lastOut, runModule, listLen, listIdx, listed>>
    /\ UNCHANGED <<regVars, sock, mon, removed, chanVars, recvVars, sendVars, textVars, dlVars>>

\* "background": break.
interact_background ==
    /\ opPc = "interact"
    /\ opPc' = "console" /\ opSid' = 0 /\ opClient' = 0
    /\ runModule' = "none"
    /\ UNCHANGED <<opStack, lastOut, listLen, listIdx, listed>>
    /\ UNCHANGED <<regVars, sock, mon, removed, chanVars, recvVars, sendVars, textVars, dlVars>>

\* "help", "modules", an empty line: print and continue.
interact_help ==
    /\ opPc = "interact"
    /\ UNCHANGED vars

\* A faulty dispatch: a name that is not in the table runs sysinfo.
dispatch_default(module) ==
    IF module \in DOMAIN modules THEN <<Frame(module)>> ELSE <<Frame("sysinfo")>>

\* if module in modules: modules[module]()
\* else: print("[!] Unknown module")
dispatch(module) ==
    IF module \in DOMAIN modules THEN <<Frame(module)>> ELSE <<>>

\* "run <module>": execute_module(session_id, module).
execute_module(module) ==
    /\ opPc = "interact"
    /\ module \in RunArgs
    /\ IF DictHas(sessions, opSid) /\ dispatch(module) # <<>>
       THEN /\ opPc' = "module"
            /\ opStack' = dispatch(module)
       ELSE UNCHANGED <<opPc, opStack>>
    /\ runModule' = module
    /\ UNCHANGED <<opSid, opClient, lastOut, listLen, listIdx, listed>>
    /\ UNCHANGED <<regVars, sock, mon, removed, chanVars, recvVars, sendVars, textVars, dlVars>>

\* "download <path>": self.module_download_file(client, path).
interact_download ==
    /\ opPc = "interact"
    /\ opPc' = "module"
    /\ opStack' = <<Frame("download")>>
    /\ runModule' = "none"
    /\ UNCHANGED <<opSid, opClient, lastOut, listLen, listIdx, listed>>
    /\ UNCHANGED <<regVars, sock, mon, removed, chanVars, recvVars, sendVars, textVars, dlVars>>

\* Any other line: if not self.send_command(client, cmd): break
interact_raw_send ==
    /\ opPc = "interact"
    /\ \E ok \in BOOLEAN :
          /\ SendCall(opClient, ok)
          /\ IF ok
             THEN opPc' = "raw_recv" /\ UNCHANGED <<opSid, opClient>>
             ELSE opPc' = "console" /\ opSid' = 0 /\ opClient' = 0
    /\ runModule' = "none"
    /\ UNCHANGED <<opStack, lastOut, listLen, listIdx, listed>>
    /\ UNCHANGED <<regVars, mon, removed, recvVars, sendVars, textVars, dlVars>>

\* print(self.recv_output(client), end='')
interact_raw_recv ==
    /\ opPc = "raw_recv"
    /\ IF RecvRaises(opClient)
       THEN /\ opPc' = "console" /\ opSid' = 0 /\ opClient' = 0
            /\ UNCHANGED <<chanVars, sock>>
       ELSE /\ \E out \in Replies, broken \in BOOLEAN : RecvCall(opClient, out, broken)
            /\ opPc' = "interact"
            /\ UNCHANGED <<opSid, opClient>>
    /\ UNCHANGED <<opStack, lastOut, runModule, listLen, listIdx, listed>>
    /\ UNCHANGED <<regVars, mon, removed, recvVars, sendVars, textVars, dlVars>>

\* ------------------------------------------------------ running a module
module_send ==
    /\ opPc = "module" /\ ~AtEnd /\ Instr.op = "send"
    /\ \E ok \in BOOLEAN : SendCall(opClient, ok)
    /\ opStack' = Advance
    /\ lastOut' = "none"
    /\ UNCHANGED <<opPc, opSid, opClient, listLen, listIdx, listed, runModule>>
    /\ UNCHANGED <<regVars, mon, removed, recvVars, sendVars, textVars, dlVars>>

\* recv_output, also the second one of
\*   'SeImpersonate' in self.recv_output(client) and 'Enabled' in self.recv_output(client)
\* which is called only when the first reply holds the marker.
module_recv ==
    /\ opPc = "module" /\ ~AtEnd /\ Instr.op \in {"recv", "recv_if"}
    /\ IF Instr.op = "recv_if" /\ ~Marked
       THEN /\ opStack' = Advance
            /\ UNCHANGED <<opPc, opSid, opClient, lastOut, chanVars, sock>>
       ELSE IF RecvRaises(opClient)
       THEN /\ opPc' = "console" /\ opSid' = 0 /\ opClient' = 0
            /\ opStack' = <<>> /\ lastOut' = "none"
            /\ UNCHANGED <<chanVars, sock>>
       ELSE /\ \E out \in Replies, broken \in BOOLEAN :
                  RecvCall(opClient, out, broken) /\ lastOut' = out
            /\ opStack' = Advance
            /\ UNCHANGED <<opPc, opSid, opClient>>
    /\ UNCHANGED <<listLen, listIdx, listed, runModule>>
    /\ UNCHANGED <<regVars, mon, removed, recvVars, sendVars, textVars, dlVars>>

\* if 'EXISTS' not in check: return
module_branch ==
    /\ opPc = "module" /\ ~AtEnd /\ Instr.op = "ret_unless"
    /\ opStack' = IF Marked THEN Advance
                  ELSE [opStack EXCEPT ![Len(opStack)].pc = Len(modules[Top.mod]) + 1]
    /\ UNCHANGED <<opPc, opSid, opClient, lastOut, runModule, listLen, listIdx, listed>>
    /\ UNCHANGED <<regVars, sock, mon, removed, chanVars, recvVars, sendVars, textVars, dlVars>>

\* self.module_x(client), unconditionally or when the reply holds the marker.
module_call ==
    /\ opPc = "module" /\ ~AtEnd /\ Instr.op \in {"call", "call_if"}
    /\ opStack' = IF Instr.op = "call" \/ Marked
                  THEN Append(Advance, Frame(Instr.arg))
                  ELSE Advance
    /\ UNCHANGED <<opPc, opSid, opClient, lastOut, runModule, listLen, listIdx, listed>>
    /\ UNCHANGED <<regVars, sock, mon, removed, chanVars, recvVars, sendVars, textVars, dlVars>>

\* A faulty ending: the outermost function does not return but raises, which
\* unwinds through interact's loop to the console.
module_return_unwinds ==
    /\ opPc = "module" /\ AtEnd
    /\ opStack' = SubSeq(opStack, 1, Len(opStack) - 1)
    /\ IF Len(opStack) = 1
       THEN opPc' = "console" /\ opSid' = 0 /\ opClient' = 0
       ELSE UNCHANGED <<opPc, opSid, opClient>>
    /\ lastOut' = IF Len(opStack) = 1 THEN "none" ELSE lastOut
    /\ UNCHANGED <<listLen, listIdx, listed, runModule>>
    /\ UNCHANGED <<regVars, sock, mon, removed, chanVars, recvVars, sendVars, textVars, dlVars>>

\* The module's function returns, to its caller or to interact's loop.
module_return ==
    /\ opPc = "module" /\ AtEnd
    /\ opStack' = SubSeq(opStack, 1, Len(opStack) - 1)
    /\ opPc' = IF Len(opStack) = 1 THEN "interact" ELSE "module"
    /\ lastOut' = IF Len(opStack) = 1 THEN "none" ELSE lastOut
    /\ UNCHANGED <<opSid, opClient, listLen, listIdx, listed, runModule>>
    /\ UNCHANGED <<regVars, sock, mon, removed, chanVars, recvVars, sendVars, textVars, dlVars>>

command_loop_registry ==
    \/ list_sessions
    \/ list_sessions_next
    \/ \E id \in Conns : interact(id)
    \/ interact_background
    \/ interact_help

command_loop ==
    \/ command_loop_registry
    \/ \E m \in RunArgs : execute_module(m)
    \/ interact_download
    \/ interact_raw_send
    \/ interact_raw_recv
    \/ module_send
    \/ module_recv
    \/ module_branch
    \/ module_call
    \/ module_return

\* ----------------------------------------------------- the specifications
Next ==
    \/ \E c \in 1..MaxConns : PeerConnect(c)
    \/ \E c \in Conns, how \in {"fin", "rst"} : PeerClose(c, how)
    \/ accept_connections
    \/ \E m \in Conns : handle_client(m)
    \/ command_loop

Spec == Init /\ [][Next]_vars

FairSpec ==
    /\ Spec
    /\ WF_vars(accept_connections)
    /\ \A m \in Conns : WF_vars(handle_client(m))
    /\ WF_vars(command_loop)

RegNext ==
    \/ \E c \in Conns : PeerConnect(c)
    \/ accept_connections
    \/ \E m \in Conns : handle_client(m)
    \/ command_loop_registry

RegSpec == Init /\ [][RegNext]_vars

\* ============================================================ recv_output
\* One call recv_output(client, timeout) against a peer that writes pieces of
\* a reply; the network delivers them to the socket's receive buffer in bursts
\* of any size.  Time is counted in ticks and passes only while recv() blocks.
\* rPeer is the state of the handle: "open", "fin" or "rst" as the peer left
\* it, or "closed" when close() was called on it before the call.

\* Pieces of a reply the peer writes.
MaxPieces == 3
\* The call's timeout and the longest time watched, in ticks.
RecvTimeout == 2
MaxElapsed == 3
\* client.recv(8192)
RecvSize == 8192

\* b"shell> "
Sentinel == <<115, 104, 101, 108, 108, 62, 32>>

\* "x", "sh", "ell> ", and the byte 0xFF, which is valid in no UTF-8 text.
Pieces == { <<120>>, <<115, 104>>, <<101, 108, 108, 62, 32>>, <<255>> }

Min(a, b) == IF a < b THEN a ELSE b

\* t in s
Contains(s, t) ==
    \E i \in 1..(Len(s) - Len(t) + 1) : SubSeq(s, i, i + Len(t) - 1) = t

\* s.find(t), from 1, for a t that s contains
FirstOcc(s, t) ==
    CHOOSE i \in 1..(Len(s) - Len(t) + 1) :
        /\ SubSeq(s, i, i + Len(t) - 1) = t
        /\ \A j \in 1..(i - 1) : SubSeq(s, j, j + Len(t) - 1) # t

\* output.decode('utf-8', errors='ignore') on ASCII bytes and 0xFF: the
\* invalid byte is dropped.
Decode(b) == SelectSeq(b, LAMBDA x : x < 128)

\* A faulty test: the sentinel is looked for in the last chunk only.
SentinelInChunk(output, chunk) == Contains(chunk, Sentinel)

\* if b"shell> " in output: break
SentinelIn(output, chunk) == Contains(output, Sentinel)

RecvInit ==
    /\ InitListener /\ SendIdle /\ TextIdle /\ DlIdle
    /\ rPc = "call" /\ rPeer \in {"open", "closed"}
    /\ rPending = <<>> /\ rBuf = <<>> /\ rOut = <<>>
    /\ rRet = <<>> /\ rEnd = "none" /\ rIdle = 0 /\ rElapsed = 0 /\ rSent = <<>>
    /\ rLastChunk = <<>> /\ rWrites = 0
    /\ rCmd = 1 /\ rLeft = <<>>

listenerVars == <<regVars, sock, mon, removed, opVars, chanVars>>

\* The remote side writes a piece of its reply.
PeerWrite(piece) ==
    /\ rPc \in {"call", "loop", "after"} /\ rPeer = "open"
    /\ rWrites < MaxPieces
    /\ rWrites' = rWrites + 1
    /\ rPending' = rPending \o piece
    /\ rSent' = rSent \o piece
    /\ UNCHANGED <<rPc, rPeer, rBuf, rOut, rRet, rEnd, rIdle, rElapsed, rLastChunk>>
    /\ UNCHANGED <<rCmd, rLeft>>
    /\ UNCHANGED <<listenerVars, sendVars, textVars, dlVars>>

\* The next k bytes in flight arrive in the receive buffer.
NetDeliver(k) ==
    /\ rPc # "done"
    /\ k \in 1..Len(rPending)
    /\ rBuf' = rBuf \o SubSeq(rPending, 1, k)
    /\ rPending' = SubSeq(rPending, k + 1, Len(rPending))
    /\ UNCHANGED <<rPc, rPeer, rOut, rRet, rEnd, rIdle, rElapsed, rSent, rLastChunk, rWrites>>
    /\ UNCHANGED <<rCmd, rLeft>>
    /\ UNCHANGED <<listenerVars, sendVars, textVars, dlVars>>

\* The remote side closes after all it wrote has arrived (FIN), or the
\* connection is reset and what was buffered is lost (RST).
PeerHangup(how) ==
    /\ rPc # "done" /\ rPeer = "open"
    /\ how \in {"fin", "rst"}
    /\ how = "fin" => rPending = <<>>
    /\ rPeer' = how
    /\ rBuf' = IF how = "rst" THEN <<>> ELSE rBuf
    /\ rPending' = IF how = "rst" THEN <<>> ELSE rPending
    /\ UNCHANGED <<rPc, rOut, rRet, rEnd, rIdle, rElapsed, rSent, rLastChunk, rWrites>>
    /\ UNCHANGED <<rCmd, rLeft>>
    /\ UNCHANGED <<listenerVars, sendVars, textVars, dlVars>>

\* A tick passes while recv() blocks on an empty buffer.
Tick ==
    /\ rPc = "loop" /\ rBuf = <<>> /\ rPeer = "open"
    /\ rIdle < RecvTimeout
    /\ rElapsed < MaxElapsed
    /\ rIdle' = rIdle + 1
    /\ rElapsed' = rElapsed + 1
    /\ UNCHANGED <<rPc, rPeer, rPending, rBuf, rOut, rRet, rEnd, rSent, rLastChunk, rWrites>>
    /\ UNCHANGED <<rCmd, rLeft>>
    /\ UNCHANGED <<listenerVars, sendVars, textVars, dlVars>>

\* client.settimeout(timeout); output = b""
\* settimeout() is called before the try: on a handle that close() was called
\* on it raises OSError (bad file descriptor), and nothing in recv_output
\* catches it.
recv_settimeout ==
    /\ rPc = "call"
    /\ IF rPeer = "closed"
       THEN rPc' = "raised" /\ rEnd' = "raised"
       ELSE rPc' = "loop" /\ UNCHANGED rEnd
    /\ rOut' = <<>> /\ rIdle' = 0 /\ rElapsed' = 0
    /\ UNCHANGED <<rPeer, rPending, rBuf, rRet, rSent, rLastChunk, rWrites>>
    /\ UNCHANGED <<rCmd, rLeft>>
    /\ UNCHANGED <<listenerVars, sendVars, textVars, dlVars>>

\* chunk = client.recv(8192) with data buffered; output += chunk;
\* if b"shell> " in output: break
recv_chunk ==
    /\ rPc = "loop" /\ rBuf # <<>> /\ rPeer # "rst"
    /\ LET n == Min(Len(rBuf), RecvSize)
           chunk == SubSeq(rBuf, 1, n)
           output == rOut \o chunk
       IN /\ rBuf' = SubSeq(rBuf, n + 1, Len(rBuf))
          /\ rOut' = output
          /\ rLastChunk' = chunk
          /\ rIdle' = 0
          /\ IF SentinelIn(output, chunk)
             THEN rPc' = "after" /\ rEnd' = "sentinel"
             ELSE UNCHANGED <<rPc, rEnd>>
    /\ UNCHANGED <<rPeer, rPending, rRet, rElapsed, rSent, rWrites>>
    /\ UNCHANGED <<rCmd, rLeft>>
    /\ UNCHANGED <<listenerVars, sendVars, textVars, dlVars>>

\* The ways the loop ends without the sentinel:
\*   eof      recv() returns b"" (the peer closed): "if not chunk: break"
\*   error    recv() raises on a reset connection: "except: pass"
\*   timeout  recv() has blocked for `timeout`: socket.timeout, "except: pass"
recv_stop(why) ==
    /\ rPc = "loop"
    /\ \/ why = "eof" /\ rBuf = <<>> /\ rPeer = "fin"
       \/ why = "error" /\ rPeer = "rst"
       \/ why = "timeout" /\ rBuf = <<>> /\ rPeer = "open" /\ rIdle = RecvTimeout
    /\ rPc' = "after"
    /\ rEnd' = why
    /\ UNCHANGED <<rPeer, rPending, rBuf, rOut, rRet, rIdle, rElapsed, rSent, rLastChunk, rWrites>>
    /\ UNCHANGED <<rCmd, rLeft>>
    /\ UNCHANGED <<listenerVars, sendVars, textVars, dlVars>>

\* client.settimeout(None); return output.decode('utf-8', errors='ignore')
recv_return ==
    /\ rPc = "after"
    /\ rPc' = "done"
    /\ rRet' = Decode(rOut)
    /\ UNCHANGED <<rPeer, rPending, rBuf, rOut, rEnd, rIdle, rElapsed, rSent, rLastChunk, rWrites>>
    /\ UNCHANGED <<rCmd, rLeft>>
    /\ UNCHANGED <<listenerVars, sendVars, textVars, dlVars>>

RecvNext ==
    \/ \E piece \in Pieces : PeerWrite(piece)
    \/ \E k \in 1..(MaxPieces * Len(Sentinel)) : NetDeliver(k)
    \/ \E how \in {"fin", "rst"} : PeerHangup(how)
    \/ Tick
    \/ recv_settimeout
    \/ recv_chunk
    \/ \E why \in {"eof", "error", "timeout"} : recv_stop(why)
    \/ recv_return

RecvSpec == RecvInit /\ [][RecvNext]_vars

\* ------------------------------------------------ consecutive exchanges
\* Exchanges on one connection, one after the other: send_command, then
\* recv_output, as interact and the modules make them.  The remote side writes
\* on while the listener is between two calls of recv_output.

\* Commands sent on the connection.
MaxCmds == 2

\* The next command is sent and recv_output is called for its reply: nothing is
\* read or discarded in between, so what the remote has written and no read
\* has returned is still in flight or in the receive buffer.
next_exchange ==
    /\ rPc = "done"
    /\ rCmd < MaxCmds
    /\ rCmd' = rCmd + 1
    /\ rLeft' = rBuf \o rPending
    /\ rPc' = "call"
    /\ rRet' = <<>> /\ rEnd' = "none" /\ rLastChunk' = <<>>
    /\ UNCHANGED <<rPeer, rPending, rBuf, rOut, rIdle, rElapsed, rSent, rWrites>>
    /\ UNCHANGED <<listenerVars, sendVars, textVars, dlVars>>

AlignNext ==
    \/ RecvNext
    \/ next_exchange

AlignSpec == RecvInit /\ [][AlignNext]_vars

\* ============================================================ send_command
\* One call send_command(client, cmd) on a handle in any state.

\* Characters of a command line.
MaxCmdLen == 2

\* 'd' and 'e' with acute accent (U+00E9), which UTF-8 encodes in two bytes.
CmdChars == {100, 233}

Cmds == UNION { [1..n -> CmdChars] : n \in 0..MaxCmdLen }

\* str.encode(): UTF-8 of code points below U+0800.
RECURSIVE Encode(_)
Encode(str) ==
    IF str = <<>> THEN <<>>
    ELSE LET ch == Head(str)
         IN (IF ch < 128 THEN <<ch>> ELSE <<192 + (ch \div 64), 128 + (ch % 64)>>)
            \o Encode(Tail(str))

Newline == 10

SendInit ==
    /\ InitListener /\ RecvIdle /\ TextIdle /\ DlIdle
    /\ sPc = "call"
    /\ sHandle \in {"open", "fin", "rst", "closed"}
    /\ sCmd \in Cmds
    /\ sWire = <<>> /\ sRet = "none" /\ sRaised = FALSE /\ sErr = FALSE

\* The peer goes away while the call runs.
SendPeerClose(how) ==
    /\ sPc \in {"call", "sleep"}
    /\ sHandle = "open"
    /\ how \in {"fin", "rst"}
    /\ sHandle' = how
    /\ UNCHANGED <<sPc, sCmd, sWire, sRet, sRaised, sErr>>
    /\ UNCHANGED <<listenerVars, recvVars, textVars, dlVars>>

\* try: client.send((cmd + '\n').encode())
\* send() raises on a reset or closed handle; otherwise it writes a non-empty
\* prefix of the data (a write to a peer that has closed is answered by a reset).
send_command_try ==
    /\ sPc = "call"
    /\ IF sHandle \in {"rst", "closed"}
       THEN /\ sErr' = TRUE
            /\ sPc' = "except"
            /\ UNCHANGED <<sWire, sHandle>>
       ELSE /\ \E n \in 1..Len(Encode(Append(sCmd, Newline))) :
                  sWire' = SubSeq(Encode(Append(sCmd, Newline)), 1, n)
            /\ sHandle' = IF sHandle = "fin" THEN "rst" ELSE sHandle
            /\ sPc' = "sleep"
            /\ UNCHANGED sErr
    /\ UNCHANGED <<sCmd, sRet, sRaised>>
    /\ UNCHANGED <<listenerVars, recvVars, textVars, dlVars>>

\* time.sleep(0.4); return True
send_command_sleep ==
    /\ sPc = "sleep"
    /\ sPc' = "done"
    /\ sRet' = TRUE
    /\ UNCHANGED <<sHandle, sCmd, sWire, sRaised, sErr>>
    /\ UNCHANGED <<listenerVars, recvVars, textVars, dlVars>>

\* Without the except clause the exception would reach the caller.
send_command_handler_missing == [ret |-> "none", raised |-> TRUE]

\* except: return False
send_command_handler == [ret |-> FALSE, raised |-> FALSE]

send_command_except ==
    /\ sPc = "except"
    /\ sPc' = "done"
    /\ sRet' = send_command_handler.ret
    /\ sRaised' = send_command_handler.raised
    /\ UNCHANGED <<sHandle, sCmd, sWire, sErr>>
    /\ UNCHANGED <<listenerVars, recvVars, textVars, dlVars>>

SendNext ==
    \/ \E how \in {"fin", "rst"} : SendPeerClose(how)
    \/ send_command_try
    \/ send_command_sleep
    \/ send_command_except

SendSpec == SendInit /\ [][SendNext]_vars

\* ============================================================ clean_output
\* clean_output(text) applied to a text, and again to its own result.  Texts
\* are sequences of character codes, put together from a few pieces.

\* Pieces in a text.
MaxTextPieces == 4

\* The texts made of at most n pieces of P.
RECURSIVE Texts(_, _)
Texts(P, n) ==
    IF n = 0 THEN {<<>>}
    ELSE Texts(P, n - 1) \cup {t \o piece : t \in Texts(P, n - 1), piece \in P}

\* "s", "shell> ", "hell> ", "x", a space, "\n", "\r"
CleanPieces ==
    { <<115>>, <<115, 104, 101, 108, 108, 62, 32>>, <<104, 101, 108, 108, 62, 32>>,
      <<120>>, <<32>>, <<10>>, <<13>> }

\* '\r'
Cr == 13

\* The characters str.strip() removes: tab, LF, VT, FF, CR, FS..US, space.
Whitespace == {9, 10, 11, 12, 13, 28, 29, 30, 31, 32}

\* s.split(sep) for a one-character sep
RECURSIVE Split(_, _)
Split(s, sep) ==
    IF \A i \in 1..Len(s) : s[i] # sep THEN <<s>>
    ELSE LET i == CHOOSE k \in 1..Len(s) : s[k] = sep /\ \A j \in 1..(k - 1) : s[j] # sep
         IN <<SubSeq(s, 1, i - 1)>> \o Split(SubSeq(s, i + 1, Len(s)), sep)

\* sep.join(lines)
RECURSIVE Join(_, _)
Join(lines, sep) ==
    IF lines = <<>> THEN <<>>
    ELSE IF Len(lines) = 1 THEN lines[1]
    ELSE lines[1] \o <<sep>> \o Join(Tail(lines), sep)

\* s.replace(old, ''): one scan from the left that drops each occurrence of
\* old it meets and goes on after it
RECURSIVE Remove(_, _)
Remove(s, old) ==
    IF Len(s) < Len(old) THEN s
    ELSE IF SubSeq(s, 1, Len(old)) = old
         THEN Remove(SubSeq(s, Len(old) + 1, Len(s)), old)
         ELSE <<Head(s)>> \o Remove(Tail(s), old)

\* s.strip()
Strip(s) ==
    LET keep == {i \in 1..Len(s) : s[i] \notin Whitespace}
    IN IF keep = {} THEN <<>>
       ELSE SubSeq(s, CHOOSE i \in keep : \A j \in keep : i <= j,
                      CHOOSE i \in keep : \A j \in keep : i >= j)

\* line = line.replace('shell> ', '').strip()
clean_line(line) == Strip(Remove(line, Sentinel))

\* for line in text.split('\n'): ...; if line and line != '\r': cleaned.append(line)
\* return '\n'.join(cleaned)
clean_output(text) ==
    LET lines == Split(text, Newline)
        stripped == [i \in 1..Len(lines) |-> clean_line(lines[i])]
        cleaned == SelectSeq(stripped, LAMBDA line : line # <<>> /\ line # <<Cr>>)
    IN Join(cleaned, Newline)

CleanInit ==
    /\ InitListener /\ RecvIdle /\ SendIdle /\ DlIdle
    /\ tPc = "call"
    /\ tText \in Texts(CleanPieces, MaxTextPieces)
    /\ tOut = <<>> /\ tOut2 = <<>> /\ tStatus = "none" /\ tCalls = <<>> /\ tInfo = <<>>

otherVars == <<listenerVars, recvVars, sendVars>>

\* cleaned = self.clean_output(text)
clean_output_call ==
    /\ tPc = "call"
    /\ tOut' = clean_output(tText)
    /\ tPc' = "once"
    /\ UNCHANGED <<tText, tOut2, tStatus, tCalls, tInfo>>
    /\ UNCHANGED <<otherVars, dlVars>>

\* self.clean_output(cleaned)
clean_output_again ==
    /\ tPc = "once"
    /\ tOut2' = clean_output(tOut)
    /\ tPc' = "twice"
    /\ UNCHANGED <<tText, tOut, tStatus, tCalls, tInfo>>
    /\ UNCHANGED <<otherVars, dlVars>>

CleanNext ==
    \/ clean_output_call
    \/ clean_output_again

CleanSpec == CleanInit /\ [][CleanNext]_vars

\* ==================================================== the privilege probe
\* module_sysinfo's classification of the reply to its "net session" probe.

\* Pieces in a reply.
MaxProbePieces == 3

\* "den", "ied", "DENIED.", "Refus", "A", "x "
ProbePieces ==
    { <<100, 101, 110>>, <<105, 101, 100>>, <<68, 69, 78, 73, 69, 68, 46>>,
      <<82, 101, 102, 117, 115>>, <<65>>, <<120, 32>> }

\* ['denied', 'refus']
DenialPhrases == { <<100, 101, 110, 105, 101, 100>>, <<114, 101, 102, 117, 115>> }

\* s.lower(), on ASCII text
Lower(s) == [i \in 1..Len(s) |-> IF s[i] \in 65..90 THEN s[i] + 32 ELSE s[i]]

\* A faulty test: the phrases are looked for in the reply as it came.
privilege_status_cased(output) ==
    IF \E x \in DenialPhrases : Contains(output, x) THEN "USER" ELSE "ADMINISTRATOR"

\* status = "USER" if any(x in output.lower() for x in ['denied', 'refus'])
\*          else "ADMINISTRATOR"
privilege_status(output) ==
    IF \E x \in DenialPhrases : Contains(Lower(output), x) THEN "USER" ELSE "ADMINISTRATOR"

ProbeInit ==
    /\ InitListener /\ RecvIdle /\ SendIdle /\ DlIdle
    /\ tPc = "probe"
    /\ tText \in Texts(ProbePieces, MaxProbePieces)
    /\ tOut = <<>> /\ tOut2 = <<>> /\ tStatus = "none" /\ tCalls = <<>> /\ tInfo = <<>>

\* output = self.recv_output(client); status = ...
sysinfo_privilege ==
    /\ tPc = "probe"
    /\ tStatus' = privilege_status(tText)
    /\ tPc' = "classified"
    /\ UNCHANGED <<tText, tOut, tOut2, tCalls, tInfo>>
    /\ UNCHANGED <<otherVars, dlVars>>

ProbeNext == sysinfo_privilege

ProbeSpec == ProbeInit /\ [][ProbeNext]_vars

\* ==================================================== module_download_file
\* module_download_file(client, remote_path) against a remote file: the three
\* exchanges (existence check, size probe, content), the extraction of the
\* base64 text, its decoding and the local file.  recv_output is one step here
\* and returns the reply as text.  Time is counted in settle periods of
\* send_command (0.4 s).

\* Chunks in the remote file, in DlSpec and in SaveSpec.
MaxFileChunks == 3
SaveFileChunks == 2
\* The latest time at which the clock is seen to advance on its own, and the
\* times the local clock is set back.
MaxClock == 2
MaxClockBack == 1

\* time.sleep(0.4), in milliseconds
SettleMs == 400
\* len(line) > 20
MinLineLen == 20
\* len(b64_data) < 10
MinBlobLen == 10
\* '\\'
Backslash == 92
\* '='
Pad == 61

\* Two single bytes and the 15 bytes "ManManManManMan".
FileChunks ==
    { <<0>>, <<255>>,
      <<77, 97, 110, 77, 97, 110, 77, 97, 110, 77, 97, 110, 77, 97, 110>> }

\* "browser_passwords.txt"
BrowserFile ==
    <<98, 114, 111, 119, 115, 101, 114, 95, 112, 97, 115, 115, 119, 111, 114, 100, 115,
      46, 116, 120, 116>>

\* "%TEMP%\\browser_passwords.txt"
DefaultPath == <<37, 84, 69, 77, 80, 37, 92>> \o BrowserFile

\* No path, "C:\\browser_passwords.txt", "n"
Paths == { <<>>, <<67, 58, 92>> \o BrowserFile, <<110>> }

\* "EXISTS"
ExistsMarker == <<69, 88, 73, 83, 84, 83>>

\* 'shell>'
PromptWord == <<115, 104, 101, 108, 108, 62>>

CrLf == <<13, 10>>

\* The base64 alphabet.
B64Char(v) ==
    IF v < 26 THEN 65 + v
    ELSE IF v < 52 THEN 97 + (v - 26)
    ELSE IF v < 62 THEN 48 + (v - 52)
    ELSE IF v = 62 THEN 43 ELSE 47

\* The value of a character of the alphabet, 64 for any other character.
B64Value(c) ==
    IF c \in 65..90 THEN c - 65
    ELSE IF c \in 97..122 THEN c - 97 + 26
    ELSE IF c \in 48..57 THEN c - 48 + 52
    ELSE IF c = 43 THEN 62
    ELSE IF c = 47 THEN 63 ELSE 64

\* [Convert]::ToBase64String(bytes), computed by the remote side
RECURSIVE Base64(_)
Base64(b) ==
    IF b = <<>> THEN <<>>
    ELSE IF Len(b) = 1
    THEN <<B64Char(b[1] \div 4), B64Char((b[1] % 4) * 16), Pad, Pad>>
    ELSE IF Len(b) = 2
    THEN <<B64Char(b[1] \div 4), B64Char(((b[1] % 4) * 16) + (b[2] \div 16)),
           B64Char((b[2] % 16) * 4), Pad>>
    ELSE <<B64Char(b[1] \div 4), B64Char(((b[1] % 4) * 16) + (b[2] \div 16)),
           B64Char(((b[2] % 16) * 4) + (b[3] \div 64)), B64Char(b[3] % 64)>>
         \o Base64(SubSeq(b, 4, Len(b)))

\* base64.b64decode(s) = binascii.a2b_base64(s) without validation: characters
\* outside the alphabet are skipped, a complete padding ends the decoding, and
\* an incomplete last group of characters is an error (binascii.Error).
RECURSIVE a2b_base64(_, _, _, _, _)
a2b_base64(s, quad, left, pads, out) ==
    IF s = <<>> THEN [ok |-> quad = 0, data |-> out]
    ELSE LET c == Head(s)
             v == B64Value(c)
         IN IF c = Pad
            THEN IF quad >= 2 /\ quad + pads + 1 >= 4
                 THEN [ok |-> TRUE, data |-> out]
                 ELSE a2b_base64(Tail(s), quad, left,
                                 IF quad >= 2 THEN pads + 1 ELSE pads, out)
            ELSE IF v = 64 THEN a2b_base64(Tail(s), quad, left, pads, out)
            ELSE IF quad = 0 THEN a2b_base64(Tail(s), 1, v, 0, out)
            ELSE IF quad = 1
            THEN a2b_base64(Tail(s), 2, v % 16, 0, Append(out, (left * 4) + (v \div 16)))
            ELSE IF quad = 2
            THEN a2b_base64(Tail(s), 3, v % 4, 0, Append(out, (left * 16) + (v \div 4)))
            ELSE a2b_base64(Tail(s), 0, 0, 0, Append(out, (left * 64) + v))

b64decode(s) == a2b_base64(s, 0, 0, 0, <<>>)

\* str(n)
RECURSIVE Digits(_)
Digits(n) == IF n < 10 THEN <<48 + n>> ELSE Digits(n \div 10) \o <<48 + (n % 10)>>

\* int(s) for a string of decimal digits
RECURSIVE IntOf(_)
IntOf(s) == IF s = <<>> THEN 0 ELSE (IntOf(SubSeq(s, 1, Len(s) - 1)) * 10) + (s[Len(s)] - 48)

\* int(size_output.split('\n')[0]) raises ValueError: the first line of the
\* (stripped) output is not a string of decimal digits.
int_raises(size_output) ==
    LET first == Split(size_output, Newline)[1]
    IN first = <<>> \/ \E i \in 1..Len(first) : first[i] \notin 48..57

\* try: file_size = int(size_output.split('\n')[0])
\* except: file_size = 0
file_size(size_output) ==
    IF int_raises(size_output) THEN 0 ELSE IntOf(Split(size_output, Newline)[1])

\* A faulty handler: a size that cannot be read ends the transfer.
after_size_probe_fatal(size_output) ==
    IF int_raises(size_output) THEN "done" ELSE "content_send"

\* Where the function goes on after the size probe: neither branch of the
\* try/except returns, so the content command is next.
after_size_probe(size_output) == "content_send"

RECURSIVE Concat(_)
Concat(lines) == IF lines = <<>> THEN <<>> ELSE Head(lines) \o Concat(Tail(lines))

\* for line in output.split('\n'):
\*     line = line.strip()
\*     if line and 'shell>' not in line and len(line) > 20: b64_data += line
b64_data(output) ==
    LET lines == Split(output, Newline)
        stripped == [i \in 1..Len(lines) |-> Strip(lines[i])]
    IN Concat(SelectSeq(stripped, LAMBDA line : /\ line # <<>>
                                               /\ ~Contains(line, PromptWord)
                                               /\ Len(line) > MinLineLen))

\* A faulty check: the transfer goes on whatever the reply.
check_exists_skipped(check) == TRUE

\* 'EXISTS' in check
check_exists(check) == Contains(check, ExistsMarker)

\* datetime.now().strftime('%Y%m%d_%H%M%S'): the local time in whole seconds
Timestamp(now) == (now * SettleMs) \div 1000

\* local_path = f"downloaded_{timestamp}_{original_name}" with
\* original_name = remote_path.split('\\')[-1]
local_path(now, remote_path) ==
    LET parts == Split(remote_path, Backslash)
    IN [timestamp |-> Timestamp(now), original_name |-> parts[Len(parts)]]

\* What the remote side may answer to the three commands.
CheckReplies == { ExistsMarker \o CrLf \o Sentinel, Sentinel, <<>> }

SizeReplies(B) == { Digits(Len(B)) \o CrLf \o Sentinel, <<120>> \o CrLf \o Sentinel, <<>> }

\* The encoding on a line of its own before the prompt, or with the prompt on
\* the same line.
FaithfulContent(B) == { Base64(B) \o CrLf \o Sentinel, Base64(B) \o Sentinel }

\* The character at position i replaced by another one of the alphabet.
Flip(s, i) == [s EXCEPT ![i] = IF s[i] = 65 THEN 66 ELSE 65]

\* The encoding cut short, or with one character changed on the way.
DamagedContent(B) ==
    LET b64 == Base64(B)
    IN {SubSeq(b64, 1, k) : k \in 0..(Len(b64) - 1)}
       \cup {Flip(b64, i) \o CrLf \o Sentinel : i \in 1..Len(b64)}

DlInit ==
    /\ InitListener /\ RecvIdle /\ SendIdle /\ TextIdle
    /\ dPc = "idle" /\ dPath = <<>> /\ dFile = <<>> /\ dCheck = <<>> /\ dSizeOut = <<>>
    /\ dSize = 0 /\ dReply = <<>>
    /\ dB64 = <<>> /\ dResult = "none" /\ dRuns = 0 /\ dSends = <<>>
    /\ dFiles = <<>> /\ dWrites = <<>> /\ dNow = 0 /\ dBack = 0

\* module_download_file(client, remote_path) is called, for the limit-th time at
\* most; the remote file holds the bytes B.
\*   if not remote_path: remote_path = "%TEMP%\\browser_passwords.txt"
dl_call(path, B, limit) ==
    /\ dPc = "idle"
    /\ dRuns < limit
    /\ dPath' = IF path = <<>> THEN DefaultPath ELSE path
    /\ dFile' = B
    /\ dPc' = "check_send"
    /\ dCheck' = <<>> /\ dSizeOut' = <<>> /\ dSize' = 0 /\ dReply' = <<>> /\ dB64' = <<>>
    /\ dResult' = "none"
    /\ UNCHANGED <<dRuns, dSends, dFiles, dWrites, dNow, dBack>>
    /\ UNCHANGED <<otherVars, textVars>>

\* self.send_command(client, ...): the command is written and the call sleeps
\* for one settle period.
dl_send_command ==
    /\ dPc \in {"check_send", "size_send", "content_send"}
    /\ dSends' = Append(dSends, CASE dPc = "check_send" -> "exists"
                                   [] dPc = "size_send" -> "size"
                                   [] dPc = "content_send" -> "content")
    /\ dPc' = CASE dPc = "check_send" -> "check_recv"
                [] dPc = "size_send" -> "size_recv"
                [] dPc = "content_send" -> "content_recv"
    /\ dNow' = dNow + 1
    /\ UNCHANGED <<dPath, dFile, dCheck, dSizeOut, dSize, dReply, dB64, dResult, dRuns,
                   dFiles, dWrites, dBack>>
    /\ UNCHANGED <<otherVars, textVars>>

\* check = self.recv_output(client, 3)
\* if 'EXISTS' not in check: print("[!] File not found"); return
dl_check_recv(reply) ==
    /\ dPc = "check_recv"
    /\ dCheck' = reply
    /\ IF check_exists(reply)
       THEN dPc' = "size_send" /\ UNCHANGED dResult
       ELSE dPc' = "done" /\ dResult' = "not_found"
    /\ UNCHANGED <<dPath, dFile, dSizeOut, dSize, dReply, dB64, dRuns, dSends,
                   dFiles, dWrites, dNow, dBack>>
    /\ UNCHANGED <<otherVars, textVars>>

\* size_output = self.clean_output(self.recv_output(client, 3)); file_size = ...
dl_size_recv(reply) ==
    /\ dPc = "size_recv"
    /\ dSizeOut' = clean_output(reply)
    /\ dSize' = file_size(clean_output(reply))
    /\ dPc' = after_size_probe(clean_output(reply))
    /\ UNCHANGED <<dPath, dFile, dCheck, dReply, dB64, dResult, dRuns, dSends,
                   dFiles, dWrites, dNow, dBack>>
    /\ UNCHANGED <<otherVars, textVars>>

\* output = self.recv_output(client, 30); b64_data = ...
\* if len(b64_data) < 10: print("[!] Failed to read file"); return
dl_content_recv(reply) ==
    /\ dPc = "content_recv"
    /\ dReply' = reply
    /\ dB64' = b64_data(reply)
    /\ IF Len(b64_data(reply)) < MinBlobLen
       THEN dPc' = "done" /\ dResult' = "failed_read"
       ELSE dPc' = "decode" /\ UNCHANGED dResult
    /\ UNCHANGED <<dPath, dFile, dCheck, dSizeOut, dSize, dRuns, dSends,
                   dFiles, dWrites, dNow, dBack>>
    /\ UNCHANGED <<otherVars, textVars>>

\* try: file_data = base64.b64decode(b64_data); ...
\*      with open(local_path, 'wb') as f: f.write(file_data)
\* except Exception as e: print(f"[!] Error: {e}")
\* open(..., 'wb') creates the file or truncates the one that exists.
dl_decode_save ==
    /\ dPc = "decode"
    /\ LET decoded == b64decode(dB64)
           name == local_path(dNow, dPath)
       IN IF decoded.ok
          THEN /\ dFiles' = DictSet(dFiles, name, decoded.data)
               /\ dWrites' = Append(dWrites, [name |-> name, data |-> decoded.data])
               /\ dResult' = "saved"
          ELSE /\ dResult' = "error"
               /\ UNCHANGED <<dFiles, dWrites>>
    /\ dPc' = "done"
    /\ UNCHANGED <<dPath, dFile, dCheck, dSizeOut, dSize, dReply, dB64, dRuns, dSends,
                   dNow, dBack>>
    /\ UNCHANGED <<otherVars, textVars>>

\* print("=" * 70) and the return to the caller
dl_return ==
    /\ dPc = "done"
    /\ dPc' = "idle"
    /\ dRuns' = dRuns + 1
    /\ UNCHANGED <<dPath, dFile, dCheck, dSizeOut, dSize, dReply, dB64, dResult, dSends,
                   dFiles, dWrites, dNow, dBack>>
    /\ UNCHANGED <<otherVars, textVars>>

\* A settle period passes.
ClockTick ==
    /\ dNow < MaxClock
    /\ dNow' = dNow + 1
    /\ UNCHANGED <<dPc, dPath, dFile, dCheck, dSizeOut, dSize, dReply, dB64, dResult, dRuns,
                   dSends, dFiles, dWrites, dBack>>
    /\ UNCHANGED <<otherVars, textVars>>

\* The local clock that datetime.now() reads is set back by k periods (a clock
\* correction, or the end of daylight saving time).
ClockBack(k) ==
    /\ dBack < MaxClockBack
    /\ k \in 1..dNow
    /\ dNow' = dNow - k
    /\ dBack' = dBack + 1
    /\ UNCHANGED <<dPc, dPath, dFile, dCheck, dSizeOut, dSize, dReply, dB64, dResult, dRuns,
                   dSends, dFiles, dWrites>>
    /\ UNCHANGED <<otherVars, textVars>>

\* One transfer of the default path, against a remote side that may answer
\* anything.
DlNext ==
    \/ \E B \in Texts(FileChunks, MaxFileChunks) : dl_call(<<>>, B, 1)
    \/ dl_send_command
    \/ \E reply \in CheckReplies : dl_check_recv(reply)
    \/ \E reply \in SizeReplies(dFile) : dl_size_recv(reply)
    \/ \E reply \in FaithfulContent(dFile) \cup DamagedContent(dFile) : dl_content_recv(reply)
    \/ dl_decode_save
    \/ dl_return

DlSpec == DlInit /\ [][DlNext]_vars

\* Two transfers, one after the other, against a remote side that answers
\* each command in full, under a local clock that may be set back.
SaveNext ==
    \/ \E path \in Paths, B \in Texts(FileChunks, SaveFileChunks) : dl_call(path, B, 2)
    \/ dl_send_command
    \/ dl_check_recv(ExistsMarker \o CrLf \o Sentinel)
    \/ dl_size_recv(Digits(Len(dFile)) \o CrLf \o Sentinel)
    \/ dl_content_recv(Base64(dFile) \o CrLf \o Sentinel)
    \/ dl_decode_save
    \/ dl_return
    \/ ClockTick
    \/ \E k \in 1..(MaxClock + 6) : ClockBack(k)

SaveSpec == DlInit /\ [][SaveNext]_vars

\* ================================================= module_autopwn's checks
\* module_autopwn against the replies of the remote shell: the remote answers
\* the "whoami /priv" query with tText; each recv_output returns a prefix of
\* what the remote has written and the listener has not read yet (all of it
\* when the prompt came in time, less when the deadline passed first).

\* Pieces in the reply to the "whoami /priv" query.
MaxPrivPieces == 3

\* 'SeImpersonate'
PrivMarker == <<83, 101, 73, 109, 112, 101, 114, 115, 111, 110, 97, 116, 101>>

\* 'Enabled'
PrivQualifier == <<69, 110, 97, 98, 108, 101, 100>>

\* '0x1'
ElevatedMarker == <<48, 120, 49>>

\* "SeImpersonate", " Enabled", "Disabled", "\r\n", "shell> "
PrivPieces ==
    { PrivMarker, <<32>> \o PrivQualifier, <<68, 105, 115, 97, 98, 108, 101, 100>>,
      CrLf, Sentinel }

\* "", "0x1 shell> ", "0x1 0x1 shell> "
ElevatedReplies ==
    { <<>>, ElevatedMarker \o <<32>> \o Sentinel,
      ElevatedMarker \o <<32>> \o ElevatedMarker \o <<32>> \o Sentinel }

\* s.count(t): the occurrences of t in s that do not overlap, from the left
RECURSIVE Count(_, _)
Count(s, t) ==
    IF ~Contains(s, t) THEN 0
    ELSE 1 + Count(SubSeq(s, FirstOcc(s, t) + Len(t), Len(s)), t)

\* self.recv_output(client).count('0x1') >= 2
always_install_elevated(output) ==
    IF Count(output, ElevatedMarker) >= 2 THEN "VULNERABLE" ELSE "Not vulnerable"

\* What the remote has written in reply to the query and no read has returned.
PrivUnread == SubSeq(tText, Len(tOut) + Len(tOut2) + 1, Len(tText))

AutopwnInit ==
    /\ InitListener /\ RecvIdle /\ SendIdle /\ DlIdle
    /\ tPc = "elevated_send"
    /\ tText \in Texts(PrivPieces, MaxPrivPieces)
    /\ tOut = <<>> /\ tOut2 = <<>> /\ tStatus = "none" /\ tCalls = <<>> /\ tInfo = <<>>

\* self.send_command(client, ...): the two queries
autopwn_send ==
    /\ tPc \in {"elevated_send", "priv_send"}
    /\ tCalls' = Append(tCalls, [op |-> "send", out |-> <<>>])
    /\ tPc' = IF tPc = "elevated_send" THEN "elevated_recv" ELSE "priv_recv"
    /\ UNCHANGED <<tText, tOut, tOut2, tStatus, tInfo>>
    /\ UNCHANGED <<otherVars, dlVars>>

\* if self.recv_output(client).count('0x1') >= 2: ... else: ...
autopwn_elevated_recv(reply) ==
    /\ tPc = "elevated_recv"
    /\ tCalls' = Append(tCalls, [op |-> "recv", out |-> reply])
    /\ tInfo' = DictSet(tInfo, "AlwaysInstallElevated", always_install_elevated(reply))
    /\ tPc' = "priv_send"
    /\ UNCHANGED <<tText, tOut, tOut2, tStatus>>
    /\ UNCHANGED <<otherVars, dlVars>>

\* if 'SeImpersonate' in self.recv_output(client) and ...: the left operand;
\* the right operand is evaluated only when the left one holds.
autopwn_priv_recv(n) ==
    /\ tPc = "priv_recv"
    /\ n \in 0..Len(PrivUnread)
    /\ LET out == SubSeq(PrivUnread, 1, n)
       IN /\ tOut' = out
          /\ tCalls' = Append(tCalls, [op |-> "recv", out |-> out])
          /\ IF Contains(out, PrivMarker)
             THEN tPc' = "priv_recv_again" /\ UNCHANGED tStatus
             ELSE tPc' = "reported" /\ tStatus' = "Not available"
    /\ UNCHANGED <<tText, tOut2, tInfo>>
    /\ UNCHANGED <<otherVars, dlVars>>

\* ... and 'Enabled' in self.recv_output(client): a second read of the handle
autopwn_priv_recv_again(n) ==
    /\ tPc = "priv_recv_again"
    /\ n \in 0..Len(PrivUnread)
    /\ LET out == SubSeq(PrivUnread, 1, n)
       IN /\ tOut2' = out
          /\ tCalls' = Append(tCalls, [op |-> "recv", out |-> out])
          /\ tStatus' = IF Contains(out, PrivQualifier) THEN "ENABLED" ELSE "Not available"
    /\ tPc' = "reported"
    /\ UNCHANGED <<tText, tOut, tInfo>>
    /\ UNCHANGED <<otherVars, dlVars>>

AutopwnNext ==
    \/ autopwn_send
    \/ \E reply \in ElevatedReplies : autopwn_elevated_recv(reply)
    \/ \E n \in 0..Len(tText) : autopwn_priv_recv(n)
    \/ \E n \in 0..Len(tText) : autopwn_priv_recv_again(n)

AutopwnSpec == AutopwnInit /\ [][AutopwnNext]_vars

\* ================================================== module_sysinfo's steps
\* module_sysinfo against the replies of the remote shell: seven exchanges,
\* each a send_command whose result is dropped and a recv_output.  A command
\* that was not written gets no reply.

\* [("hostname", "Hostname"), ("whoami", "User"), ("echo %COMPUTERNAME%",
\*   "Computer"), ("echo %USERDOMAIN%", "Domain")]
IdentityLabels == <<"Hostname", "User", "Computer", "Domain">>

\* The module's exchanges, in order: the identity probes and the three after them.
SysinfoSteps == IdentityLabels \o <<"Privilege", "OS", "Antivirus">>

\* 'Get-CimInstance'
CimWord == <<71, 101, 116, 45, 67, 105, 109, 73, 110, 115, 116, 97, 110, 99, 101>>

\* "", "pc\r\nshell> "
IdentityReplies == { <<>>, <<112, 99>> \o CrLf \o Sentinel }

\* "", "shell> ", "Access is denied.\r\nshell> "
PrivilegeReplies ==
    { <<>>, Sentinel,
      <<65, 99, 99, 101, 115, 115, 32, 105, 115, 32, 100, 101, 110, 105, 101, 100, 46>>
          \o CrLf \o Sentinel }

\* "", "OS Name: W\r\nshell> "
OsReplies == { <<>>, <<79, 83, 32, 78, 97, 109, 101, 58, 32, 87>> \o CrLf \o Sentinel }

\* "", "Get-CimInstance\r\nAV\r\nshell> "
AvReplies == { <<>>, CimWord \o CrLf \o <<65, 86>> \o CrLf \o Sentinel }

\* The step the module is at: one send and one recv have been made per step done.
SysinfoStep == SysinfoSteps[(Len(tCalls) \div 2) + 1]

SysinfoReplies(step) ==
    CASE step = "Privilege" -> PrivilegeReplies
      [] step = "OS" -> OsReplies
      [] step = "Antivirus" -> AvReplies
      [] OTHER -> IdentityReplies

\* The lines of a cleaned output: ''.split('\n') is [''].
Lines(output) == Split(output, Newline)

\* for line in output.split('\n')[:5]: if line.strip(): print(...)
os_lines(output) ==
    SelectSeq(SubSeq(Lines(output), 1, Min(5, Len(Lines(output)))),
              LAMBDA line : Strip(line) # <<>>)

\* avs = [l.strip() for l in output.split('\n')
\*        if l.strip() and 'Get-CimInstance' not in l]
avs(output) ==
    LET kept == SelectSeq(Lines(output),
                          LAMBDA l : Strip(l) # <<>> /\ ~Contains(l, CimWord))
    IN [i \in 1..Len(kept) |-> Strip(kept[i])]

SysinfoInit ==
    /\ InitListener /\ RecvIdle /\ SendIdle /\ DlIdle
    /\ tPc = "sysinfo_send"
    /\ tText = <<>> /\ tOut = <<>> /\ tOut2 = <<>>
    /\ tStatus = "none" /\ tCalls = <<>> /\ tInfo = <<>>

\* self.send_command(client, ...): True or False, and the result is not looked at
sysinfo_send(ok) ==
    /\ tPc = "sysinfo_send"
    /\ tCalls' = Append(tCalls, [op |-> IF ok THEN "send" ELSE "send_failed", out |-> <<>>])
    /\ tPc' = "sysinfo_recv"
    /\ UNCHANGED <<tText, tOut, tOut2, tStatus, tInfo>>
    /\ UNCHANGED <<otherVars, dlVars>>

\* output = ...self.recv_output(client)... and what the step does with it
sysinfo_recv(reply) ==
    /\ tPc = "sysinfo_recv"
    /\ reply \in SysinfoReplies(SysinfoStep)
    /\ tCalls[Len(tCalls)].op = "send_failed" => reply = <<>>
    /\ tCalls' = Append(tCalls, [op |-> "recv", out |-> reply])
    /\ tText' = reply
    /\ LET step == SysinfoStep
           output == clean_output(reply)
       IN /\ tInfo' = IF step \in {"Hostname", "User", "Computer", "Domain"} /\ output # <<>>
                      THEN DictSet(tInfo, step, Lines(output)[1])
                      ELSE tInfo
          /\ tStatus' = IF step = "Privilege" THEN privilege_status(reply) ELSE tStatus
          /\ tOut' = IF step = "OS" THEN os_lines(output) ELSE tOut
          /\ tOut2' = IF step = "Antivirus"
                      THEN IF avs(output) # <<>>
                           THEN SubSeq(avs(output), 1, Min(3, Len(avs(output))))
                           ELSE <<"Unable to detect">>
                      ELSE tOut2
          /\ tPc' = IF step = "Antivirus" THEN "sysinfo_done" ELSE "sysinfo_send"
    /\ UNCHANGED <<otherVars, dlVars>>

SysinfoNext ==
    \/ \E ok \in BOOLEAN : sysinfo_send(ok)
    \/ \E reply \in IdentityReplies \cup PrivilegeReplies \cup OsReplies \cup AvReplies :
           sysinfo_recv(reply)

SysinfoSpec == SysinfoInit /\ [][SysinfoNext]_vars

\* ================================================================ claims

\* C1 (RegSpec): the identifiers issued, in issue order, start at 1, are
\* strictly increasing and pairwise distinct; none is issued a second time.
IdsStrictlyIncreasing ==
    /\ (issued # <<>> => issued[1] = 1)
    /\ \A i, j \in 1..Len(issued) : i < j => issued[i] < issued[j]
    /\ \A i, j \in 1..Len(issued) : i # j => issued[i] # issued[j]

\* Two identifiers are issued and a third connection already waits in the
\* backlog while the acceptor is still registering the second.
TwoIssuedWhileAnotherWaits ==
    /\ Len(issued) >= 2
    /\ accPc = "insert"
    /\ backlog # <<>>

\* C2 (RegSpec): the registry holds at most one entry per identifier, no
\* identifier is inserted twice, and no removed identifier is in the registry.
OneEntryPerIdNeverReinserted ==
    /\ \A i, j \in 1..Len(sessions) : sessions[i].key = sessions[j].key => i = j
    /\ \A i, j \in 1..Len(insertLog) : i # j => insertLog[i] # insertLog[j]
    /\ removed \cap DictKeys(sessions) = {}

\* Three accepts have inserted three entries.
ThreeSessionsRegistered ==
    /\ Len(insertLog) >= 3
    /\ Len(sessions) >= 3

\* C4 (FairSpec): a transport failure on a connection leads to its session's
\* removal, its handle closed and its monitor gone.
SessionOf(c) == {i \in 1..Len(sessions) : sessions[i].val.socket = c}

MonitorsOf(c) == {m \in 1..Len(mon) : mon[m].client = c /\ mon[m].pc # "done"}

FailureLeadsToRemoval ==
    \A c \in Conns :
        (c \in failed) ~> (SessionOf(c) = {} /\ sock[c] = "closed" /\ MonitorsOf(c) = {})

\* C5 (RegSpec): no entry is inserted or deleted while list_sessions is
\* enumerating the registry.
NoWriteDuringEnumeration ==
    opPc = "list_iter" => Len(sessions) = listLen

NoReadAfterSentinel ==
    /\ rPc = "loop" => ~Contains(rOut, Sentinel)
    /\ Contains(rOut, Sentinel) => rEnd = "sentinel"

\* The call returned on a sentinel that arrived split across two reads.
ReturnedOnSplitSentinel ==
    /\ rPc = "done"
    /\ rEnd = "sentinel"
    /\ ~Contains(rLastChunk, Sentinel)
    /\ rElapsed < RecvTimeout

\* C8 (RecvSpec): when the stream holds the sentinel, the output returned
\* holds nothing of the stream past the end of its first occurrence.
OutputEndsAtSentinel ==
    (rPc = "done" /\ Contains(rSent, Sentinel)) =>
        Len(rRet) <= Len(Decode(SubSeq(rSent, 1, FirstOcc(rSent, Sentinel) + Len(Sentinel) - 1)))

\* C9 (RecvSpec): the call is over once `timeout` has elapsed since it began,
\* and a call that ends on the timeout ends exactly then.
ReturnsAtDeadline ==
    /\ rPc = "loop" => rElapsed <= RecvTimeout
    /\ (rPc \in {"after", "done"} /\ rEnd = "timeout") => rElapsed = RecvTimeout

\* C10 (SendSpec): send_command returns False exactly when the write raised,
\* True otherwise, and never raises.
SendReportsWriteError ==
    sPc = "done" =>
        /\ ~sRaised
        /\ sRet = ~sErr
        /\ (sRet = TRUE) = (sWire # <<>>)

\* The call returned False on a locally closed handle.
SendFailedOnClosedHandle ==
    /\ sPc = "done"
    /\ sHandle = "closed"
    /\ sErr
    /\ sRet = FALSE

\* C11 (RecvSpec): recv_output never raises to its caller, whatever the state
\* of the handle, and what it returns is the text of the bytes accumulated
\* when the read loop ended.
RecvNeverRaises ==
    /\ rPc # "raised"
    /\ rPc = "done" => rRet = Decode(rOut)

\* C12 (CleanSpec): clean_output is idempotent: applied to its own result it
\* returns that result.
CleanOutputIdempotent ==
    tPc = "twice" => tOut2 = tOut

\* C13 (ProbeSpec): the privilege probe has two outcomes: USER when the reply
\* holds "denied" or "refus" in any mix of upper and lower case, and
\* ADMINISTRATOR when it holds neither.
SameLetter(a, b) == a = b \/ (b \in 97..122 /\ a = b - 32)

HasDenialPhrase(text) ==
    \E x \in DenialPhrases : \E i \in 1..(Len(text) - Len(x) + 1) :
        \A j \in 1..Len(x) : SameLetter(text[i + j - 1], x[j])

ProbeHasTwoOutcomes ==
    tPc = "classified" =>
        /\ tStatus \in {"USER", "ADMINISTRATOR"}
        /\ (tStatus = "USER") = HasDenialPhrase(tText)

\* A reply that holds a denial phrase only in upper or mixed case was
\* classified as USER.
UpperCaseDenialIsUser ==
    /\ tPc = "classified"
    /\ tStatus = "USER"
    /\ \A x \in DenialPhrases : ~Contains(tText, x)

\* C14 (Spec): the step in which execute_module is called with a name that is
\* not in the dispatch table starts no module, so that no send_command and no
\* recv_output follows from it, and changes neither the channel, nor a
\* connection, nor the registry.
UnknownModuleNoIO ==
    [][(runModule' # runModule /\ runModule' \notin ModuleNames \cup {"none"}) =>
          /\ opPc' = "interact"
          /\ opStack' = <<>>
          /\ UNCHANGED <<chanVars, sock, sessions>>]_vars

\* "run bogus" has returned to the prompt of a session that has had traffic.
UnknownModuleReported ==
    /\ opPc = "interact"
    /\ runModule = "bogus"
    /\ DictHas(sessions, opSid)
    /\ chanLast[opClient] = "recv"

\* C15 (DlSpec): once the reply to the existence check has come without the
\* marker, the transfer is over as not found: the existence check is the only
\* command ever sent and no local file is written.
NotFoundAborts ==
    (/\ ~Contains(dCheck, ExistsMarker)
     /\ \/ dPc \in {"size_send", "size_recv", "content_send", "content_recv", "decode", "done"}
        \/ dPc = "idle" /\ dRuns > 0) =>
        /\ dPc \in {"done", "idle"}
        /\ dResult = "not_found"
        /\ dSends = <<"exists">>
        /\ dWrites = <<>> /\ dFiles = <<>>

\* The remote side answered the existence check with its prompt alone, and
\* the transfer has returned.
NotFoundReported ==
    /\ dPc = "idle" /\ dRuns = 1
    /\ dCheck = Sentinel
    /\ dResult = "not_found"

\* C16 (DlSpec): when the remote side answers the existence check with the
\* marker, the size probe with the file's size and the content command with
\* the base64 text of the file followed by the sentinel, the transfer writes
\* one local file that holds exactly the remote file's bytes.
RoundTripEveryFile ==
    (/\ dPc = "done"
     /\ Contains(dCheck, ExistsMarker)
     /\ dSizeOut = Digits(Len(dFile))
     /\ dReply \in FaithfulContent(dFile)) =>
        /\ dResult = "saved"
        /\ Len(dWrites) = 1
        /\ dWrites[1].data = dFile
        /\ DictGet(dFiles, dWrites[1].name) = dFile

\* C17 (DlSpec): a transfer whose content reply is a cut or altered encoding
\* ends in an error and writes no local file, and a transfer that succeeds
\* has written exactly the remote file's bytes.
DamagedNeverSaved ==
    dPc = "done" =>
        /\ dReply \in DamagedContent(dFile) => (dResult # "saved" /\ dWrites = <<>>)
        /\ dResult = "saved" => dWrites[Len(dWrites)].data = dFile

\* C18 (SaveSpec): every local file a completed transfer has written still
\* holds what that transfer wrote.
ArtifactsKept ==
    \A i \in 1..Len(dWrites) : DictGet(dFiles, dWrites[i].name) = dWrites[i].data

\* C19 (RegSpec): a call of server.accept() that raises leaves the acceptor in
\* its loop, about to accept again, and changes neither the registry, nor the
\* counter, nor a monitor; and whenever the acceptor is about to accept, every
\* connection it has accepted, before or after a failure, is registered under
\* an identifier of its own and has its own monitor.
Accepted(c) == sock[c] # "unconnected" /\ \A i \in 1..Len(backlog) : backlog[i] # c

PrivVerdictFromOneExchange ==
    tPc = "reported" =>
        /\ tStatus = "ENABLED" <=>
               (Contains(tOut, PrivMarker) /\ Contains(tOut, PrivQualifier))
        /\ Len(SelectSeq(tCalls, LAMBDA call : call.op = "send")) = 2
        /\ Len(SelectSeq(tCalls, LAMBDA call : call.op = "recv")) = 2


\* C22: in module_sysinfo a step whose receive returned no data shows as absence
\* of data for that step (its label is not in the identity table, the privilege
\* level is neither USER nor ADMINISTRATOR), and the module runs all seven steps.
ChannelFailureIsAbsence ==
    tPc = "sysinfo_done" =>
        /\ Len(tCalls) = 2 * Len(SysinfoSteps)
        /\ \A i \in 1..Len(IdentityLabels) :
               tCalls[2 * i].out = <<>> => ~DictHas(tInfo, IdentityLabels[i])
        /\ tCalls[2 * (Len(IdentityLabels) + 1)].out = <<>> =>
               tStatus \notin {"USER", "ADMINISTRATOR"}


\* C23: the output of clean_output holds no occurrence of the sentinel, no empty
\* line and no line that is a bare carriage return, every line of it is free of
\* leading and trailing whitespace, and its lines are the non-empty cleaned lines
\* of the input, in their order.
CleanOutputNormalized ==
    tPc \in {"once", "twice"} =>
        LET inLines == Split(tText, Newline)
            kept == SelectSeq([i \in 1..Len(inLines) |-> clean_line(inLines[i])],
                              LAMBDA line : line # <<>>)
        IN /\ ~Contains(tOut, Sentinel)
           /\ tOut = <<>> <=> kept = <<>>
           /\ tOut # <<>> =>
                  /\ Split(tOut, Newline) = kept
                  /\ \A i \in 1..Len(kept) :
                         /\ kept[i] # <<Cr>>
                         /\ Strip(kept[i]) = kept[i]


\* C24: the blob module_download_file hands to the decoder is the concatenation,
\* in order, of the clean lines of the content reply (its lines as clean_output
\* produces them) that are longer than 20 characters, and of nothing else.
BlobIsLongCleanLines ==
    (dPc \in {"decode", "done"} /\ dSends # <<>> /\ dSends[Len(dSends)] = "content") =>
        LET cleaned == clean_output(dReply)
            cleanLines == IF cleaned = <<>> THEN <<>> ELSE Split(cleaned, Newline)
        IN dB64 = Concat(SelectSeq(cleanLines, LAMBDA line : Len(line) > MinLineLen))


\* How a transfer ends once its content reply is in, by lines 119-145.
TransferOutcome(reply) ==
    IF Len(b64_data(reply)) < MinBlobLen THEN "failed_read"
    ELSE IF b64decode(b64_data(reply)).ok THEN "saved" ELSE "error"

\* C25: in module_download_file a size probe whose first clean line is not an
\* integer (an empty reply included) does not end the transfer: the size is taken
\* as 0, the content command is sent next, and the transfer ends as the content
\* reply alone decides.
SizeFailureNotFatal ==
    (/\ Len(dSends) >= 2 /\ dSends[2] = "size"
     /\ dPc \notin {"size_recv", "idle"}
     /\ int_raises(dSizeOut)) =>
        /\ dSize = 0
        /\ \/ dPc = "content_send"
           \/ /\ Len(dSends) = 3 /\ dSends[3] = "content"
              /\ dPc = "done" => dResult = TransferOutcome(dReply)

SavedAfterEmptySizeReply ==
    /\ dPc = "done" /\ dResult = "saved"
    /\ dSizeOut = <<>>
    /\ dWrites # <<>> /\ dWrites[1].data = dFile


\* C26: while module_download_file runs on a session, whatever its replies are
\* (no EXISTS marker, no payload, a payload that does not decode), no step of the
\* listener changes or deletes an entry of the registry or closes the session's
\* handle, and the function returns to interact's prompt on the same session, from
\* where the next command is sent on that handle.
TransferKeepsSession ==
    [][(opPc = "module" /\ Top.mod = "download") =>
           /\ \A sid \in DictKeys(sessions) :
                  DictHas(sessions', sid) /\ DictGet(sessions', sid) = DictGet(sessions, sid)
           /\ DictGet(sessions', opSid).socket = opClient
           /\ sock'[opClient] # "closed"
           /\ \/ opPc' = "module" /\ opStack' # <<>>
              \/ opPc' = "interact" /\ opStack' = <<>>
           /\ opSid' = opSid /\ opClient' = opClient]_vars

FailedTransferAtReturn ==
    /\ opPc = "module" /\ Len(opStack) = 1 /\ Top.mod = "download" /\ AtEnd
    /\ lastOut # "marked"
    /\ DictHas(sessions, opSid) /\ DictGet(sessions, opSid).socket = opClient
    /\ sock[opClient] = "open"


\* C27: list_sessions prints the sessions in increasing order of identifier: the
\* registry's entries stand in that order at every moment, and so do the
\* identifiers an enumeration has printed so far.
ListedInIdOrder ==
    /\ \A i, j \in 1..Len(sessions) : i < j => sessions[i].key < sessions[j].key
    /\ \A i, j \in 1..Len(listed) : i < j => listed[i] < listed[j]

ThreeSessionsListed ==
    /\ opPc = "list_iter"
    /\ Len(listed) = 3
    /\ listed = [i \in 1..3 |-> sessions[i].key]


\* C29: no entry of the registry is ever removed and every monitor started is
\* still in its poll loop; the registered identifiers are the identifiers issued
\* so far, but for the one the acceptor has issued and not yet inserted.
NoEntryEverRemoved ==
    /\ removed = {}
    /\ DictKeys(sessions) = {insertLog[i] : i \in 1..Len(insertLog)}
    /\ {issued[i] : i \in 1..Len(issued)} \ DictKeys(sessions)
           \subseteq (IF accPc = "insert" THEN {accSid} ELSE {})
    /\ \A m \in 1..Len(mon) : mon[m].pc = "poll" /\ DictHas(sessions, mon[m].sid)

\* C29 as stated: in every state the registered identifiers are exactly the
\* identifiers issued so far, and every monitor is running.
RegisteredEqualsIssued ==
    /\ DictKeys(sessions) = {issued[i] : i \in 1..Len(issued)}
    /\ \A m \in 1..Len(mon) : mon[m].pc = "poll"

\* An identifier has been issued and is not yet registered while the monitors of
\* the earlier sessions poll.
IssuedNotYetRegistered ==
    /\ accPc = "insert"
    /\ ~DictHas(sessions, accSid)
    /\ Len(mon) >= 2
    /\ \A m \in 1..Len(mon) : mon[m].pc = "poll"


\* C28: the output recv_output returns for a command holds only bytes the remote
\* side wrote in response to that command: when bytes written before the command
\* was sent were still unread, none of them is in the output.
RepliesStayAligned ==
    (rPc = "done" /\ rCmd > 1 /\ rLeft # <<>>) => rOut = <<>>

====
